---- MODULE Spec2Model ----
(***************************************************************************)
(* HeyGen flu-vaccination simulation (src/app.py): the phase state machine *)
(* kept in st.session_state, the conversation history, the pending script  *)
(* and the REST client of the streaming avatar service.                    *)
(*                                                                         *)
(* One action is one user event.  Streamlit runs the whole script for the  *)
(* event; a handler that ends in st.rerun() stops that run and the script  *)
(* runs once more with no button pressed, so the pending-script handler at *)
(* the bottom of the script (lines 669-676) is part of every action that   *)
(* leaves the simulation started.  Timestamps of entries are not modelled. *)
(***************************************************************************)
EXTENDS Integers, Sequences, FiniteSets, TLC

\* ------------------------------------------------------------------ bounds
\* The script buttons and "Send Response" are pressed at most MaxLines times
\* between two resets; the service hands out at most MaxSessions session ids.
MaxLines == 1
MaxSessions == 2

\* --------------------------------------------------------------- constants
None == 0

PRE_BRIEFING == "pre_briefing"
MAIN_SIMULATION == "main_simulation"
DEBRIEFING == "debriefing"
SimulationPhase == {PRE_BRIEFING, MAIN_SIMULATION, DEBRIEFING}

AVATARS ==
    [noa |-> [avatar_id |-> "Kristin_public_3_20240108",
              knowledge_base_id |-> "96b0ed06f07640459bcac16439103895"],
     sam |-> [avatar_id |-> "Tyler_public_2_20230808",
              knowledge_base_id |-> "15a0063f43ed4d1c92f5a269dc0b8f9b"]]

get_phase_scripts(phase) ==
    CASE phase = PRE_BRIEFING ->
           << [text |-> "Hello! I'm Noa Sandoval", emotion |-> "friendly"],
              [text |-> "In this simulation, you'll be interacting with Sam Richards",
               emotion |-> "professional"],
              [text |-> "Remember to listen actively", emotion |-> "encouraging"] >>
      [] phase = MAIN_SIMULATION ->
           << [text |-> "Hi there. I'm Sam Richards.", emotion |-> "concerned"] >>
      [] phase = DEBRIEFING ->
           << [text |-> "Welcome back! I'm Noa again.", emotion |-> "friendly"],
              [text |-> "You did a great job addressing Sam's concerns",
               emotion |-> "encouraging"],
              [text |-> "Key takeaways", emotion |-> "professional"] >>
      [] OTHER -> << >>

\* What the trainee may have typed in "Your response to Sam" ("" = nothing).
UserInputs == {"", "I understand your concerns"}

\* What the trainee may have typed in the "HeyGen API Key" field.
ApiKeyInputs == {"", "key"}

\* How the request of streaming.task or streaming.stop can end: status 200,
\* another status (the client returns False and shows nothing), an exception
\* (st.error, then False).
Outcomes == {"ok", "bad_status", "exception"}
\* streaming.create_token: status 200 with a token, status 200 with no token in
\* the body (None, nothing shown), or "error": another status or an exception
\* (both st.error and None).
TokenOutcomes == {"ok", "no_token", "error"}
\* streaming.new: status 200, status 200 with no session_id in the body, or
\* "error": another status or an exception (both st.error and None).
NewOutcomes == {"ok", "no_session_id", "error"}

\* The outcomes to draw for a token request that is sent only when `sent`, and
\* for the request that follows a token request that ended tokO: a request
\* that is never sent has no outcome to choose.
TokenFor(sent) == IF sent THEN TokenOutcomes ELSE {"error"}
After(tokO, outcomes) == IF tokO = "ok" THEN outcomes ELSE {"error"}

VARIABLES
    session_id,            \* st.session_state.session_id (None or an id)
    session_data,          \* st.session_state.session_data: << >> is None
    conversation_history,  \* st.session_state.conversation_history
    simulation_phase,      \* st.session_state.simulation_phase
    simulation_started,    \* st.session_state.simulation_started
    current_avatar,        \* st.session_state.current_avatar
    phase_completed,       \* st.session_state.phase_completed
    pending_script,        \* st.session_state.pending_script: << >> is absent
    stored_api_key,        \* st.session_state.api_key: << >> is absent
    api_key,               \* the script's api_key (config or the text input)
    live,                  \* the service: sessions created and not stopped
    next_id,               \* the service: the next session id it hands out
    calls,                 \* the requests the last user event sent, in order
    errors,                \* the st.error/st.warning texts of the last event
    events,                \* the logging calls that succeeded since reset
    last                   \* the last user event

vars == << session_id, session_data, conversation_history, simulation_phase,
           simulation_started, current_avatar, phase_completed, pending_script,
           stored_api_key, api_key, live, next_id, calls, errors,
           events, last >>

state_vars == << session_id, session_data, conversation_history,
                 simulation_phase, simulation_started, current_avatar,
                 phase_completed, pending_script >>

\* ------------------------------------------------- the avatar service client
Call(ep, sid, avatar, text, out) ==
    [ep |-> ep, sid |-> sid, avatar |-> avatar, text |-> text, out |-> out]

\* create_streaming_token: the token (TRUE: one was returned), the request
\* sent and the errors shown.
create_streaming_token(key, out) ==
    [token  |-> (out = "ok"),
     calls  |-> << Call("streaming.create_token", None, "", "", out) >>,
     errors |-> IF out = "error" THEN {"Failed to create token"} ELSE {}]

\* create_streaming_session without the status check of line 167: the body of
\* an error response is returned as the session.
create_streaming_session_unchecked(key, avatar_id, knowledge_base_id, tokO, newO, fresh) ==
    LET t == create_streaming_token(key, tokO)
        c == Call("streaming.new", None, avatar_id, "", newO)
    IN  IF ~t.token
        THEN [data |-> << >>, calls |-> t.calls, errors |-> t.errors,
              created |-> {}]
        ELSE [data    |-> << [session_id |-> IF newO = "ok" THEN fresh ELSE None,
                              avatar_id |-> avatar_id] >>,
              calls   |-> t.calls \o << c >>,
              errors  |-> t.errors,
              created |-> IF newO = "ok"
                          THEN {[session_id |-> fresh, avatar_id |-> avatar_id]}
                          ELSE {}]

\* create_streaming_session: data is << >> for None, else the one result;
\* created is the session the service now runs.
create_streaming_session(key, avatar_id, knowledge_base_id, tokO, newO, fresh) ==
    LET t == create_streaming_token(key, tokO)
        c == Call("streaming.new", None, avatar_id, "", newO)
    IN  IF ~t.token
        THEN [data |-> << >>, calls |-> t.calls, errors |-> t.errors,
              created |-> {}]
        ELSE CASE newO = "ok" ->
                    [data    |-> << [session_id |-> fresh, avatar_id |-> avatar_id] >>,
                     calls   |-> t.calls \o << c >>,
                     errors  |-> t.errors,
                     created |-> {[session_id |-> fresh, avatar_id |-> avatar_id]}]
               [] newO = "no_session_id" ->
                    [data    |-> << [session_id |-> None, avatar_id |-> avatar_id] >>,
                     calls   |-> t.calls \o << c >>,
                     errors  |-> t.errors \cup {"some fields are missing"},
                     created |-> {}]
               [] OTHER ->
                    [data |-> << >>, calls |-> t.calls \o << c >>,
                     errors |-> t.errors \cup {"Failed to create session"},
                     created |-> {}]

\* speak_to_avatar returning True whatever the status of streaming.task.
speak_to_avatar_unchecked(key, sid, text, tokO, taskO) ==
    LET t == create_streaming_token(key, tokO) IN
    IF ~t.token
    THEN [ret |-> FALSE, calls |-> t.calls, errors |-> t.errors]
    ELSE [ret    |-> TRUE,
          calls  |-> t.calls \o << Call("streaming.task", sid, "", text, taskO) >>,
          errors |-> t.errors]

\* speak_to_avatar without the return on a missing token.
speak_to_avatar_no_token_check(key, sid, text, tokO, taskO) ==
    LET t == create_streaming_token(key, tokO) IN
    [ret    |-> (taskO = "ok"),
     calls  |-> t.calls \o << Call("streaming.task", sid, "", text, taskO) >>,
     errors |-> IF taskO = "exception"
                THEN t.errors \cup {"Error speaking"} ELSE t.errors]

\* speak_to_avatar: ret is the boolean it returns.
speak_to_avatar(key, sid, text, tokO, taskO) ==
    LET t == create_streaming_token(key, tokO) IN
    IF ~t.token
    THEN [ret |-> FALSE, calls |-> t.calls, errors |-> t.errors]
    ELSE [ret    |-> (taskO = "ok"),
          calls  |-> t.calls \o << Call("streaming.task", sid, "", text, taskO) >>,
          errors |-> IF taskO = "exception"
                     THEN t.errors \cup {"Error speaking"} ELSE t.errors]

\* stop_avatar_session: stopped is the set of ids the service stopped.
stop_avatar_session(key, sid, tokO, stopO) ==
    LET t == create_streaming_token(key, tokO) IN
    IF ~t.token
    THEN [ret |-> FALSE, calls |-> t.calls, errors |-> t.errors, stopped |-> {}]
    ELSE [ret     |-> (stopO = "ok"),
          calls   |-> t.calls \o << Call("streaming.stop", sid, "", "", stopO) >>,
          errors  |-> IF stopO = "exception"
                      THEN t.errors \cup {"Error stopping session"} ELSE t.errors,
          stopped |-> IF stopO = "ok" THEN {sid} ELSE {}]

NoCalls == [calls |-> << >>, errors |-> {}, stopped |-> {}]

\* ---------------------------------------------------- pieces of a script run
\* Lines 330-331: a non-empty api_key is stored in the session state.
StoreApiKey(key, stored) == IF key # "" THEN << key >> ELSE stored

\* The pending script deleted whatever speak_to_avatar returned.
PendingScriptHandler_always_clears(pending, started, key, sid, tokO, taskO) ==
    IF pending # << >> /\ started
    THEN LET r == speak_to_avatar(key, sid, pending[1].text, tokO, taskO) IN
         [pending |-> << >>, calls |-> r.calls, errors |-> r.errors]
    ELSE [pending |-> pending, calls |-> << >>, errors |-> {}]

\* Lines 669-676: speak the pending script; delete it only when that worked.
PendingScriptHandler(pending, started, key, sid, tokO, taskO) ==
    IF pending # << >> /\ started
    THEN LET r == speak_to_avatar(key, sid, pending[1].text, tokO, taskO) IN
         [pending |-> IF r.ret THEN << >> ELSE pending,
          calls |-> r.calls, errors |-> r.errors]
    ELSE [pending |-> pending, calls |-> << >>, errors |-> {}]

\* An entry of the conversation history spoken by an avatar / typed by the user.
AvatarEntry(script, avatar) ==
    [role |-> "avatar", content |-> script.text, emotion |-> script.emotion,
     avatar |-> avatar]

\* The user's entry appended with the role of the avatar entries.
UserEntry_as_avatar(user_input) == [role |-> "avatar", content |-> user_input]

UserEntry(user_input) == [role |-> "user", content |-> user_input]

\* set_phase_completed replacing the map by one that holds this phase alone.
set_phase_completed_only(completed, phase) ==
    [p \in SimulationPhase |-> p = phase]

\* set_phase_completed storing under a key that is not phase.value: the flag
\* read by is_phase_completed stays as it was.
set_phase_completed_other_key(completed, phase) == completed

\* set_phase_completed(phase): the map with the phase's flag set.
set_phase_completed(completed, phase) == [completed EXCEPT ![phase] = TRUE]

AllIncomplete == [p \in SimulationPhase |-> FALSE]

\* switch_avatar without lines 286-287: the avatar is switched and the
\* session of the previous one is left running.
switch_avatar_no_stop(sid, stored, tokO, stopO) == NoCalls

\* switch_avatar: the stop request it sends for the current session, if any.
switch_avatar_stop(sid, stored, tokO, stopO) ==
    IF sid # None /\ stored # << >>
    THEN stop_avatar_session(stored[1], sid, tokO, stopO)
    ELSE NoCalls

\* A user event: what was pressed, the phase it was pressed in, whether its
\* handler did what the button is for.
Event(op, from, ok) == [op |-> op, from |-> from, ok |-> ok]

\* A call that logged an entry: the operation and the line it is about.
Logged(op, from, text) == [op |-> op, from |-> from, text |-> text]

\* The number of script lines requested and responses sent since the reset.
Requested(evs) ==
    Cardinality({i \in 1..Len(evs) :
                    evs[i].op \in {"requestLine", "recordUserResponse"}})

Stopped(sessions, ids) == {s \in sessions : s.session_id \notin ids}

\* ------------------------------------------------------------- initial state
Init ==
    /\ session_id = None
    /\ session_data = << >>
    /\ conversation_history = << >>
    /\ simulation_phase = PRE_BRIEFING
    /\ simulation_started = FALSE
    /\ current_avatar = "noa"
    /\ phase_completed = AllIncomplete
    /\ pending_script = << >>
    /\ api_key \in ApiKeyInputs
    /\ stored_api_key = StoreApiKey(api_key, << >>)
    /\ live = {}
    /\ next_id = 1
    /\ calls = << >>
    /\ errors = {}
    /\ events = << >>
    /\ last = Event("load", PRE_BRIEFING, TRUE)

\* ------------------------------------------------------------------- actions
\* A widget other than a button changed (the notes area, line 666): the script
\* runs with no button pressed.
Rerun ==
    \E tokO \in TokenFor(pending_script # << >> /\ simulation_started) :
    \E taskO \in After(tokO, Outcomes) :
      LET ph == PendingScriptHandler(pending_script, simulation_started, api_key,
                                     session_id, tokO, taskO)
      IN  /\ stored_api_key' = StoreApiKey(api_key, stored_api_key)
          /\ pending_script' = ph.pending
          /\ calls' = ph.calls
          /\ errors' = ph.errors
          /\ last' = Event("rerun", simulation_phase, TRUE)
          /\ UNCHANGED << session_id, session_data, conversation_history,
                          simulation_phase, simulation_started, current_avatar,
                          phase_completed, api_key, live, next_id,
                          events >>

\* The trainee changes the "HeyGen API Key" field (lines 320-331).  The field
\* is shown when load_config() gave no key; a key from load_config() is the
\* behaviour in which the key is there from the first run and never edited.
EditApiKey ==
    /\ \E k \in ApiKeyInputs \ {api_key},
          tokO \in TokenFor(pending_script # << >> /\ simulation_started) :
       \E taskO \in After(tokO, Outcomes) :
         LET ph == PendingScriptHandler(pending_script, simulation_started, k,
                                        session_id, tokO, taskO)
         IN  /\ api_key' = k
             /\ stored_api_key' = StoreApiKey(k, stored_api_key)
             /\ pending_script' = ph.pending
             /\ calls' = ph.calls
             /\ errors' = ph.errors
             /\ last' = Event("edit_api_key", simulation_phase, TRUE)
             /\ UNCHANGED << session_id, session_data, conversation_history,
                             simulation_phase, simulation_started, current_avatar,
                             phase_completed, live, next_id, events >>

\* A phase change that queues its line only when no line is pending.
PhaseTransition_keeps_pending(from, to, avatar_key) ==
    /\ simulation_started
    /\ simulation_phase = from
    /\ \E tokO \in TokenFor(session_id # None), tokO2 \in TokenOutcomes :
       \E stopO \in After(tokO, Outcomes), taskO \in After(tokO2, Outcomes) :
         LET stored == StoreApiKey(api_key, stored_api_key)
             sw     == switch_avatar_stop(session_id, stored, tokO, stopO)
             script == get_phase_scripts(to)[1]
             ph     == PendingScriptHandler(IF pending_script # << >> THEN pending_script
                                            ELSE << script >>, TRUE, api_key, None,
                                            tokO2, taskO)
         IN  /\ simulation_phase' = to
             /\ phase_completed' = set_phase_completed(phase_completed, from)
             /\ current_avatar' = avatar_key
             /\ session_id' = None
             /\ session_data' = << >>
             /\ conversation_history' =
                    Append(conversation_history, AvatarEntry(script, avatar_key))
             /\ pending_script' = ph.pending
             /\ stored_api_key' = stored
             /\ live' = Stopped(live, sw.stopped)
             /\ calls' = sw.calls \o ph.calls
             /\ errors' = sw.errors \cup ph.errors
             /\ events' = Append(events, Logged("advance", from, script.text))
             /\ last' = Event("advance", from, TRUE)
             /\ UNCHANGED << simulation_started, api_key, next_id >>

\* A phase change that starts the conversation history afresh.
PhaseTransition_new_history(from, to, avatar_key) ==
    /\ simulation_started
    /\ simulation_phase = from
    /\ \E tokO \in TokenFor(session_id # None), tokO2 \in TokenOutcomes :
       \E stopO \in After(tokO, Outcomes), taskO \in After(tokO2, Outcomes) :
         LET stored == StoreApiKey(api_key, stored_api_key)
             sw     == switch_avatar_stop(session_id, stored, tokO, stopO)
             script == get_phase_scripts(to)[1]
             ph     == PendingScriptHandler(<< script >>, TRUE, api_key, None,
                                            tokO2, taskO)
         IN  /\ simulation_phase' = to
             /\ phase_completed' = set_phase_completed(phase_completed, from)
             /\ current_avatar' = avatar_key
             /\ session_id' = None
             /\ session_data' = << >>
             /\ conversation_history' = << AvatarEntry(script, avatar_key) >>
             /\ pending_script' = ph.pending
             /\ stored_api_key' = stored
             /\ live' = Stopped(live, sw.stopped)
             /\ calls' = sw.calls \o ph.calls
             /\ errors' = sw.errors \cup ph.errors
             /\ events' = Append(events, Logged("advance", from, script.text))
             /\ last' = Event("advance", from, TRUE)
             /\ UNCHANGED << simulation_started, api_key, next_id >>

\* A sidebar progression button that changes the phase (lines 361-378 and
\* 381-398), with the run that st.rerun() starts.
PhaseTransition(from, to, avatar_key) ==
    /\ simulation_started
    /\ simulation_phase = from
    /\ \E tokO \in TokenFor(session_id # None), tokO2 \in TokenOutcomes :
       \E stopO \in After(tokO, Outcomes), taskO \in After(tokO2, Outcomes) :
         LET stored == StoreApiKey(api_key, stored_api_key)
             sw     == switch_avatar_stop(session_id, stored, tokO, stopO)
             script == get_phase_scripts(to)[1]
             ph     == PendingScriptHandler(<< script >>, TRUE, api_key, None,
                                            tokO2, taskO)
         IN  /\ simulation_phase' = to
             /\ phase_completed' = set_phase_completed(phase_completed, from)
             /\ current_avatar' = avatar_key
             /\ session_id' = None
             /\ session_data' = << >>
             /\ conversation_history' =
                    Append(conversation_history, AvatarEntry(script, avatar_key))
             /\ pending_script' = ph.pending
             /\ stored_api_key' = stored
             /\ live' = Stopped(live, sw.stopped)
             /\ calls' = sw.calls \o ph.calls
             /\ errors' = sw.errors \cup ph.errors
             /\ events' = Append(events, Logged("advance", from, script.text))
             /\ last' = Event("advance", from, TRUE)
             /\ UNCHANGED << simulation_started, api_key, next_id >>

\* "Pre-Brief Complete" going straight to the debriefing.
PreBriefComplete_skips == PhaseTransition(PRE_BRIEFING, DEBRIEFING, "noa")

PreBriefComplete == PhaseTransition(PRE_BRIEFING, MAIN_SIMULATION, "sam")

\* "Simulation Complete" that keeps Sam as the avatar.
SimulationComplete_keeps_sam == PhaseTransition(MAIN_SIMULATION, DEBRIEFING, "sam")

SimulationComplete == PhaseTransition(MAIN_SIMULATION, DEBRIEFING, "noa")

\* "Complete Session" that starts the phases over.
CompleteSession_restarts ==
    /\ simulation_started
    /\ simulation_phase = DEBRIEFING
    /\ \E tokO \in TokenFor(pending_script # << >>) :
       \E taskO \in After(tokO, Outcomes) :
         LET ph == PendingScriptHandler(pending_script, TRUE, api_key, session_id,
                                        tokO, taskO)
         IN  /\ phase_completed' = set_phase_completed(phase_completed, DEBRIEFING)
             /\ simulation_phase' = PRE_BRIEFING
             /\ stored_api_key' = StoreApiKey(api_key, stored_api_key)
             /\ pending_script' = ph.pending
             /\ calls' = ph.calls
             /\ errors' = ph.errors
             /\ last' = Event("advance", DEBRIEFING, TRUE)
             /\ UNCHANGED << session_id, session_data, conversation_history,
                             simulation_started, current_avatar,
                             api_key, live, next_id, events >>

\* "Complete Session" (lines 400-403): no st.rerun(), the run goes on to the
\* pending-script handler.
CompleteSession ==
    /\ simulation_started
    /\ simulation_phase = DEBRIEFING
    /\ \E tokO \in TokenFor(pending_script # << >>) :
       \E taskO \in After(tokO, Outcomes) :
         LET ph == PendingScriptHandler(pending_script, TRUE, api_key, session_id,
                                        tokO, taskO)
         IN  /\ phase_completed' = set_phase_completed(phase_completed, DEBRIEFING)
             /\ stored_api_key' = StoreApiKey(api_key, stored_api_key)
             /\ pending_script' = ph.pending
             /\ calls' = ph.calls
             /\ errors' = ph.errors
             /\ last' = Event("advance", DEBRIEFING, TRUE)
             /\ UNCHANGED << session_id, session_data, conversation_history,
                             simulation_phase, simulation_started, current_avatar,
                             api_key, live, next_id, events >>

\* advance(): the progression button the sidebar shows for the current phase.
Advance == PreBriefComplete \/ SimulationComplete \/ CompleteSession

\* "Reset Simulation" without lines 434-438: the progress tracker is kept.
ResetSimulation_keeps_progress ==
    \E tokO \in TokenFor(session_id # None /\ api_key # "") :
    \E stopO \in After(tokO, Outcomes) :
      LET st == IF session_id # None /\ api_key # ""
                THEN stop_avatar_session(api_key, session_id, tokO, stopO)
                ELSE NoCalls
      IN  /\ conversation_history' = << >>
          /\ simulation_phase' = PRE_BRIEFING
          /\ simulation_started' = FALSE
          /\ session_id' = None
          /\ session_data' = << >>
          /\ current_avatar' = "noa"
          /\ phase_completed' = phase_completed
          /\ stored_api_key' = StoreApiKey(api_key, stored_api_key)
          /\ live' = Stopped(live, st.stopped)
          /\ calls' = st.calls
          /\ errors' = st.errors
          /\ events' = << >>
          /\ last' = Event("reset", simulation_phase, TRUE)
          /\ UNCHANGED << pending_script, api_key, next_id >>

\* "Reset Simulation" that clears the session reference only when the stop
\* went through.
ResetSimulation_needs_stop ==
    \E tokO \in TokenFor(session_id # None /\ api_key # "") :
    \E stopO \in After(tokO, Outcomes) :
      LET st == IF session_id # None /\ api_key # ""
                THEN stop_avatar_session(api_key, session_id, tokO, stopO)
                ELSE NoCalls
      IN  /\ conversation_history' = << >>
          /\ simulation_phase' = PRE_BRIEFING
          /\ simulation_started' = FALSE
          /\ session_id' = IF st.calls # << >> /\ st.stopped = {} THEN session_id ELSE None
          /\ session_data' = IF st.calls # << >> /\ st.stopped = {}
                           THEN session_data ELSE << >>
          /\ current_avatar' = "noa"
          /\ phase_completed' = AllIncomplete
          /\ stored_api_key' = StoreApiKey(api_key, stored_api_key)
          /\ live' = Stopped(live, st.stopped)
          /\ calls' = st.calls
          /\ errors' = st.errors
          /\ events' = << >>
          /\ last' = Event("reset", simulation_phase, TRUE)
          /\ UNCHANGED << pending_script, api_key, next_id >>

\* "Reset Simulation" (lines 423-439).  The rerun finds the simulation not
\* started, so the pending-script handler does not run.
ResetSimulation ==
    \E tokO \in TokenFor(session_id # None /\ api_key # "") :
    \E stopO \in After(tokO, Outcomes) :
      LET st == IF session_id # None /\ api_key # ""
                THEN stop_avatar_session(api_key, session_id, tokO, stopO)
                ELSE NoCalls
      IN  /\ conversation_history' = << >>
          /\ simulation_phase' = PRE_BRIEFING
          /\ simulation_started' = FALSE
          /\ session_id' = None
          /\ session_data' = << >>
          /\ current_avatar' = "noa"
          /\ phase_completed' = AllIncomplete
          /\ stored_api_key' = StoreApiKey(api_key, stored_api_key)
          /\ live' = Stopped(live, st.stopped)
          /\ calls' = st.calls
          /\ errors' = st.errors
          /\ events' = << >>
          /\ last' = Event("reset", simulation_phase, TRUE)
          /\ UNCHANGED << pending_script, api_key, next_id >>

\* "Start Simulation" (lines 483-525), enabled when not started and an API
\* key is configured.
StartSimulation ==
    /\ ~simulation_started
    /\ api_key # ""
    /\ next_id <= MaxSessions
    /\ \E tokO \in TokenOutcomes :
       \E newO \in After(tokO, NewOutcomes) :
       \E tokO2 \in TokenFor(tokO = "ok" /\ newO \in {"ok", "no_session_id"}) :
       \E taskO \in After(tokO2, Outcomes) :
         LET avatar_info == AVATARS[current_avatar]
             cs == create_streaming_session(api_key, avatar_info.avatar_id,
                                            avatar_info.knowledge_base_id,
                                            tokO, newO, next_id)
             script == get_phase_scripts(PRE_BRIEFING)[1]
             sid == IF cs.data = << >> THEN None ELSE cs.data[1].session_id
             ph == PendingScriptHandler(<< script >>, TRUE, api_key, sid,
                                        tokO2, taskO)
         IN  /\ stored_api_key' = StoreApiKey(api_key, stored_api_key)
             /\ live' = live \cup cs.created
             /\ next_id' = next_id + Cardinality(cs.created)
             /\ IF cs.data # << >>
                THEN /\ session_id' = sid
                     /\ session_data' = cs.data
                     /\ simulation_started' = TRUE
                     /\ conversation_history' =
                            Append(conversation_history, AvatarEntry(script, "noa"))
                     /\ pending_script' = ph.pending
                     /\ calls' = cs.calls \o ph.calls
                     /\ errors' = cs.errors \cup ph.errors
                     /\ events' = Append(events,
                            Logged("start", simulation_phase, script.text))
                     /\ last' = Event("start", simulation_phase, TRUE)
                ELSE /\ calls' = cs.calls
                     /\ errors' = cs.errors \cup {"Failed to create avatar session"}
                     /\ last' = Event("start", simulation_phase, FALSE)
                     /\ UNCHANGED << session_id, session_data, simulation_started,
                                     conversation_history, pending_script, events >>
             /\ UNCHANGED << simulation_phase, current_avatar, phase_completed,
                             api_key >>

\* The script buttons drawn without the test of simulation_started.
RequestLine_unguarded ==
    /\ simulation_phase \in {PRE_BRIEFING, DEBRIEFING}
    /\ Requested(events) < MaxLines
    /\ \E index \in 1..3, tokO \in TokenOutcomes,
          tokO2 \in TokenFor(pending_script # << >>) :
       \E taskO \in After(tokO, Outcomes), taskO2 \in After(tokO2, Outcomes) :
         LET script == get_phase_scripts(simulation_phase)[index]
             sp == speak_to_avatar(api_key, session_id, script.text, tokO, taskO)
             ph == PendingScriptHandler(pending_script, TRUE, api_key, session_id,
                                        tokO2, taskO2)
             ev == Logged("requestLine", simulation_phase, script.text)
         IN  /\ stored_api_key' = StoreApiKey(api_key, stored_api_key)
             /\ conversation_history' =
                    IF sp.ret
                    THEN Append(conversation_history,
                                AvatarEntry(script, current_avatar))
                    ELSE conversation_history
             /\ events' = IF sp.ret THEN Append(events, ev) ELSE events
             /\ pending_script' = ph.pending
             /\ calls' = sp.calls \o ph.calls
             /\ errors' = sp.errors \cup ph.errors
             /\ last' = Event("requestLine", simulation_phase, sp.ret)
             /\ UNCHANGED << session_id, session_data, simulation_phase,
                             simulation_started, current_avatar, phase_completed,
                             api_key, live, next_id >>

\* A script button of the Pre-Briefing or Debriefing controls (lines 552-587
\* and 606-641): index is the position of the line in the phase's script.
RequestLine ==
    /\ simulation_started
    /\ simulation_phase \in {PRE_BRIEFING, DEBRIEFING}
    /\ Requested(events) < MaxLines
    /\ \E index \in 1..3, tokO \in TokenOutcomes,
          tokO2 \in TokenFor(pending_script # << >>) :
       \E taskO \in After(tokO, Outcomes), taskO2 \in After(tokO2, Outcomes) :
         LET script == get_phase_scripts(simulation_phase)[index]
             sp == speak_to_avatar(api_key, session_id, script.text, tokO, taskO)
             ph == PendingScriptHandler(pending_script, TRUE, api_key, session_id,
                                        tokO2, taskO2)
             ev == Logged("requestLine", simulation_phase, script.text)
         IN  /\ stored_api_key' = StoreApiKey(api_key, stored_api_key)
             /\ conversation_history' =
                    IF sp.ret
                    THEN Append(conversation_history,
                                AvatarEntry(script, current_avatar))
                    ELSE conversation_history
             /\ events' = IF sp.ret THEN Append(events, ev) ELSE events
             /\ pending_script' = ph.pending
             /\ calls' = sp.calls \o ph.calls
             /\ errors' = sp.errors \cup ph.errors
             /\ last' = Event("requestLine", simulation_phase, sp.ret)
             /\ UNCHANGED << session_id, session_data, simulation_phase,
                             simulation_started, current_avatar, phase_completed,
                             api_key, live, next_id >>

\* "Send Response" with insert(0, ...) in place of append.
SendResponse_first ==
    /\ simulation_started
    /\ simulation_phase = MAIN_SIMULATION
    /\ Requested(events) < MaxLines
    /\ \E user_input \in UserInputs, tokO \in TokenFor(pending_script # << >>) :
       \E taskO \in After(tokO, Outcomes) :
         LET ph == PendingScriptHandler(pending_script, TRUE, api_key, session_id,
                                        tokO, taskO)
             ev == Logged("recordUserResponse", simulation_phase, user_input)
         IN  /\ stored_api_key' = StoreApiKey(api_key, stored_api_key)
             /\ conversation_history' =
                    IF user_input # ""
                    THEN << UserEntry(user_input) >> \o conversation_history
                    ELSE conversation_history
             /\ events' = IF user_input # "" THEN Append(events, ev) ELSE events
             /\ pending_script' = ph.pending
             /\ calls' = ph.calls
             /\ errors' = ph.errors
             /\ last' = Event("recordUserResponse", simulation_phase, user_input # "")
             /\ UNCHANGED << session_id, session_data, simulation_phase,
                             simulation_started, current_avatar, phase_completed,
                             api_key, live, next_id >>

\* "Send Response" of the Simulation controls (lines 589-604).
SendResponse ==
    /\ simulation_started
    /\ simulation_phase = MAIN_SIMULATION
    /\ Requested(events) < MaxLines
    /\ \E user_input \in UserInputs, tokO \in TokenFor(pending_script # << >>) :
       \E taskO \in After(tokO, Outcomes) :
         LET ph == PendingScriptHandler(pending_script, TRUE, api_key, session_id,
                                        tokO, taskO)
             ev == Logged("recordUserResponse", simulation_phase, user_input)
         IN  /\ stored_api_key' = StoreApiKey(api_key, stored_api_key)
             /\ conversation_history' =
                    IF user_input # ""
                    THEN Append(conversation_history, UserEntry(user_input))
                    ELSE conversation_history
             /\ events' = IF user_input # "" THEN Append(events, ev) ELSE events
             /\ pending_script' = ph.pending
             /\ calls' = ph.calls
             /\ errors' = ph.errors
             /\ last' = Event("recordUserResponse", simulation_phase, user_input # "")
             /\ UNCHANGED << session_id, session_data, simulation_phase,
                             simulation_started, current_avatar, phase_completed,
                             api_key, live, next_id >>

Next ==
    \/ Rerun
    \/ EditApiKey
    \/ PreBriefComplete
    \/ SimulationComplete
    \/ CompleteSession
    \/ ResetSimulation
    \/ StartSimulation
    \/ RequestLine
    \/ SendResponse

Spec == Init /\ [][Next]_vars

\* ---------------------------------------------------------------- properties
\* The character the specification assigns to a phase.
CharacterOf(phase) == IF phase = MAIN_SIMULATION THEN "sam" ELSE "noa"

\* The phase that follows a phase; the debriefing is terminal.
Following(phase) ==
    CASE phase = PRE_BRIEFING    -> MAIN_SIMULATION
      [] phase = MAIN_SIMULATION -> DEBRIEFING
      [] OTHER                   -> DEBRIEFING

IsPrefix(s, t) == Len(s) <= Len(t) /\ SubSeq(t, 1, Len(s)) = s

\* The step is advance() / the step is advance() and the phase changes.
AdvanceStep == last'.op = "advance"
PhaseChangingAdvance == AdvanceStep /\ simulation_phase' # simulation_phase

\* C1: every advance() moves the phase to the one that follows it (and keeps
\* it at the debriefing), reset() puts it back to the pre-briefing, and no
\* other operation changes the phase: never backward, never a phase skipped.
C1_PhaseOrder ==
    [][ /\ AdvanceStep => simulation_phase' = Following(simulation_phase)
        /\ last'.op = "reset" => simulation_phase' = PRE_BRIEFING
        /\ last'.op \notin {"advance", "reset"}
              => simulation_phase' = simulation_phase ]_vars

C1_Witness ==
    /\ last = Event("advance", DEBRIEFING, TRUE)
    /\ simulation_phase = DEBRIEFING
    /\ phase_completed = [p \in SimulationPhase |-> TRUE]

\* C2: in every reachable state the active character is the character of the
\* current phase.
C2_CharacterOfPhase == current_avatar = CharacterOf(simulation_phase)

C2_Witness ==
    /\ simulation_phase = DEBRIEFING
    /\ current_avatar = "noa"
    /\ last = Event("advance", MAIN_SIMULATION, TRUE)

\* C3: after reset(), from whatever state, the phase is the pre-briefing, the
\* character the instructor, the simulation not started, the conversation
\* history empty, every completion flag false and no session referred to.
C3_ResetToInitial ==
    last.op = "reset" =>
        /\ simulation_phase = PRE_BRIEFING
        /\ current_avatar = "noa"
        /\ ~simulation_started
        /\ conversation_history = << >>
        /\ \A p \in SimulationPhase : ~phase_completed[p]
        /\ session_id = None
        /\ session_data = << >>

C3_Witness == last = Event("reset", DEBRIEFING, TRUE) /\ pending_script # << >>

\* C4 as stated: advance() at the debriefing changes nothing of the state.
C4_NoOpAtDebriefing ==
    [][ AdvanceStep /\ simulation_phase = DEBRIEFING
            => UNCHANGED state_vars ]_vars

\* C4 as amended: advance() at the debriefing leaves the phase, the character,
\* the session reference, the started flag and the conversation history as
\* they were; it sets the debriefing's completion flag and no other; the
\* pending line stays or, when the speak request for it succeeds, is removed.
C4_CompleteAtDebriefing ==
    [][ AdvanceStep /\ simulation_phase = DEBRIEFING
            => /\ UNCHANGED << simulation_phase, current_avatar, session_id,
                               session_data, simulation_started,
                               conversation_history >>
               /\ phase_completed' = [phase_completed EXCEPT ![DEBRIEFING] = TRUE]
               /\ pending_script' \in {pending_script, << >>}
               /\ pending_script' # pending_script
                     => calls'[Len(calls')] =
                           Call("streaming.task", session_id, "",
                                pending_script[1].text, "ok") ]_vars

C4_Witness ==
    /\ last = Event("advance", DEBRIEFING, TRUE)
    /\ phase_completed[DEBRIEFING]
    /\ pending_script # << >>

\* The token request or the session request of start() did not succeed.
CreateSessionFailed(cs) ==
    \/ cs[1].out # "ok"
    \/ cs[2].ep = "streaming.new" /\ cs[2].out = "error"

\* C5: when the token request or the session request of start() fails, started
\* stays false, the session reference stays unset and the conversation history
\* and the pending line are what they were.
C5_FailedStartChangesNothing ==
    [][ last'.op = "start" /\ CreateSessionFailed(calls')
            => /\ ~simulation_started'
               /\ session_id' = None
               /\ session_data' = << >>
               /\ UNCHANGED << conversation_history, pending_script >> ]_vars

C5_Witness ==
    /\ last = Event("start", PRE_BRIEFING, FALSE)
    /\ Len(calls) = 2
    /\ calls[2].ep = "streaming.new"
    /\ ~simulation_started

\* The speak request of requestLine() did not succeed.
SpeakFailed(cs) == cs[1].out # "ok" \/ cs[2].out # "ok"

\* C6: when speak fails during requestLine(index), the conversation history,
\* the phase and the active character are unchanged.
C6_FailedSpeakChangesNothing ==
    [][ last'.op = "requestLine" /\ SpeakFailed(calls')
            => UNCHANGED << conversation_history, simulation_phase,
                            current_avatar >> ]_vars

C6_Witness ==
    /\ last = Event("requestLine", DEBRIEFING, FALSE)
    /\ Len(calls) >= 2
    /\ calls[2].ep = "streaming.task"

\* C7: a successful start() and an advance() that changes the phase append
\* one avatar entry, the first script line of the phase entered, spoken by its
\* character; the advance sets the flag of the phase left and no other.
C7_EntryOnPhaseEntry ==
    [][ /\ (last'.op = "start" /\ simulation_started') \/ PhaseChangingAdvance
            => conversation_history' =
                   Append(conversation_history,
                          [role    |-> "avatar",
                           content |-> get_phase_scripts(simulation_phase')[1].text,
                           emotion |-> get_phase_scripts(simulation_phase')[1].emotion,
                           avatar  |-> CharacterOf(simulation_phase')])
        /\ PhaseChangingAdvance
            => phase_completed' =
                   [phase_completed EXCEPT ![simulation_phase] = TRUE] ]_vars

C7_Witness ==
    /\ Len(conversation_history) = 4
    /\ [i \in 1..4 |-> events[i].op]
           = << "start", "advance", "recordUserResponse", "advance" >>
    /\ conversation_history[3].role = "user"
    /\ simulation_phase = DEBRIEFING
    /\ phase_completed[PRE_BRIEFING] /\ phase_completed[MAIN_SIMULATION]
    /\ ~phase_completed[DEBRIEFING]

C9_AppendOnly ==
    [][ /\ last'.op # "reset" => IsPrefix(conversation_history, conversation_history')
        /\ Len(conversation_history') < Len(conversation_history)
              => last'.op = "reset" ]_vars

C9_Witness ==
    /\ last.op = "advance"
    /\ Len(conversation_history) = 4

\* C10: an advance() that changes the phase requests a new session for the new
\* active character, and when the request succeeds the session reference is
\* that session.
C10_NewSessionOnAdvance ==
    [][ PhaseChangingAdvance
            => \E i \in 1..Len(calls') :
                  /\ calls'[i].ep = "streaming.new"
                  /\ calls'[i].avatar = AVATARS[current_avatar'].avatar_id
                  /\ calls'[i].out = "ok"
                        => /\ session_id' # None
                           /\ session_data' # << >>
                           /\ session_data'[1].avatar_id
                                  = AVATARS[current_avatar'].avatar_id ]_vars

\* C11: at most one session that the service created and has not stopped
\* exists at any time.
C11_AtMostOneLive == Cardinality(live) <= 1

\* The requests cs begin with an attempt to stop session sid: the token
\* request of stop_avatar_session and, when it gave a token, streaming.stop.
StopAttempted(cs, sid) ==
    /\ Len(cs) >= 1
    /\ cs[1].ep = "streaming.create_token"
    /\ cs[1].out = "ok" => /\ Len(cs) >= 2
                           /\ cs[2].ep = "streaming.stop"
                           /\ cs[2].sid = sid

\* C12: when the active character changes while a session reference is set,
\* a stop of that session is attempted (before anything is spoken) and the
\* reference is cleared; the session data the display and speak use are never
\* those of a session created for another character than the active one.
C12_NoSessionAcrossSwitch ==
    [][ /\ current_avatar' # current_avatar /\ session_id # None
            => /\ StopAttempted(calls', session_id)
               /\ \A i \in 1..Len(calls') :
                     calls'[i].ep = "streaming.task" => calls'[i].sid # session_id
               /\ session_id' = None
               /\ session_data' = << >>
        /\ session_data' # << >>
            => session_data'[1].avatar_id = AVATARS[current_avatar'].avatar_id ]_vars

C12_Witness ==
    /\ last = Event("advance", PRE_BRIEFING, TRUE)
    /\ current_avatar = "sam"
    /\ session_id = None
    /\ Len(calls) = 4
    /\ calls[2] = Call("streaming.stop", 1, "", "", "bad_status")
    /\ calls[4].ep = "streaming.task"

\* C13: advance() and reset() end in the state that the state before them
\* determines, whatever the stop request did: the phase, the character, the
\* completion map, the conversation history, the started flag and the cleared
\* session reference do not depend on the outcome of stopSession.
C13_StopFailureDoesNotBlock ==
    [][ /\ PhaseChangingAdvance
            => /\ simulation_phase' = Following(simulation_phase)
               /\ current_avatar' = CharacterOf(Following(simulation_phase))
               /\ phase_completed' =
                      [phase_completed EXCEPT ![simulation_phase] = TRUE]
               /\ Len(conversation_history') = Len(conversation_history) + 1
               /\ simulation_started'
               /\ session_id' = None /\ session_data' = << >>
        /\ last'.op = "reset"
            => /\ simulation_phase' = PRE_BRIEFING
               /\ current_avatar' = "noa"
               /\ phase_completed' = [p \in SimulationPhase |-> FALSE]
               /\ conversation_history' = << >>
               /\ ~simulation_started'
               /\ session_id' = None /\ session_data' = << >> ]_vars

\* A reset whose stop request failed, with the session still live.
C13_Witness ==
    /\ last.op = "reset"
    /\ Len(calls) = 2
    /\ calls[2].ep = "streaming.stop" /\ calls[2].out = "exception"
    /\ live # {}
    /\ session_id = None

\* C14: a reset() in a state where a session reference is set attempts to stop
\* that session.
C14_ResetStopsSession ==
    [][ last'.op = "reset" /\ session_id # None
            => StopAttempted(calls', session_id) ]_vars

\* C15: a completion flag that is true stays true under every operation but
\* reset(), and reset() sets every flag to false.
C15_CompletionMonotone ==
    [][ /\ last'.op # "reset"
            => \A p \in SimulationPhase : phase_completed[p] => phase_completed'[p]
        /\ last'.op = "reset"
            => \A p \in SimulationPhase : ~phase_completed'[p] ]_vars

C15_Witness ==
    /\ last = Event("recordUserResponse", MAIN_SIMULATION, TRUE)
    /\ phase_completed[PRE_BRIEFING]
    /\ ~phase_completed[MAIN_SIMULATION]

\* A request of cs other than those of stopSession failed: streaming.new or
\* streaming.task did not answer 200, or, in an event that stops no session,
\* the token request gave no token.
NonStopFailure(cs, stops) ==
    \E i \in 1..Len(cs) :
       \/ cs[i].ep = "streaming.new" /\ cs[i].out = "error"
       \/ cs[i].ep = "streaming.task" /\ cs[i].out # "ok"
       \/ ~stops /\ cs[i].ep = "streaming.create_token" /\ cs[i].out # "ok"

\* C16: an event in which a remote call other than stopSession fails shows an
\* error to the trainee.
C16_FailuresReported ==
    [][ NonStopFailure(calls', last'.op = "reset" \/ PhaseChangingAdvance)
            => errors' # {} ]_vars

\* The step is a recordUserResponse(text) with a text.
ResponseRecorded == last'.op = "recordUserResponse" /\ last'.ok

\* The step appends one entry, of role user, and nothing else.
OneUserEntryAppended ==
    /\ Len(conversation_history') = Len(conversation_history) + 1
    /\ IsPrefix(conversation_history, conversation_history')
    /\ conversation_history'[Len(conversation_history')].role = "user"

\* C17 as stated: recordUserResponse(text) appends one user entry and its
\* action sends no speak request.
C17_NoSpeakOnResponse ==
    [][ ResponseRecorded
            => /\ OneUserEntryAppended
               /\ \A i \in 1..Len(calls') : calls'[i].ep # "streaming.task" ]_vars

\* C17 as amended: recordUserResponse(text) with a non-empty text appends one
\* user entry and no avatar entry (with an empty text it appends nothing);
\* no request is sent while no line is pending, and otherwise the only speak
\* request of its action is the one re-attempt for the pending line.
C17_OnlyPendingSpokenOnResponse ==
    [][ /\ ResponseRecorded
            => /\ OneUserEntryAppended
               /\ pending_script = << >> => calls' = << >>
               /\ \A i \in 1..Len(calls') :
                     calls'[i].ep = "streaming.task"
                        => /\ i = Len(calls')
                           /\ calls'[i].text = pending_script[1].text
        /\ last'.op = "recordUserResponse" /\ ~last'.ok
            => conversation_history' = conversation_history ]_vars

C17_Witness ==
    /\ last = Event("recordUserResponse", MAIN_SIMULATION, TRUE)
    /\ conversation_history[Len(conversation_history)].role = "user"
    /\ Len(calls) = 2
    /\ calls[2].ep = "streaming.task"
    /\ calls[2].text = get_phase_scripts(MAIN_SIMULATION)[1].text

\* C18: start() happens only while started is false, and advance(),
\* requestLine() and recordUserResponse() only while it is true; so no
\* streaming.new request is sent while the simulation is started, and the
\* phase, the completion map and the log do not change in a step that
\* begins and ends not started.
C18_EnabledByStarted ==
    [][ /\ last'.op = "start" => ~simulation_started
        /\ last'.op \in {"advance", "requestLine", "recordUserResponse"}
              => simulation_started
        /\ simulation_started
              => \A i \in 1..Len(calls') : calls'[i].ep # "streaming.new"
        /\ ~simulation_started /\ ~simulation_started'
              => UNCHANGED << simulation_phase, phase_completed,
                              conversation_history >> ]_vars

C18_Witness ==
    /\ last = Event("start", PRE_BRIEFING, FALSE)
    /\ ~simulation_started
    /\ live # {}
    /\ Len(calls) = 2
    /\ calls[2].ep = "streaming.new"
    /\ calls[2].out = "error"

\* The requests that follow a token exchange.
SecondCalls == {"streaming.new", "streaming.task", "streaming.stop"}

\* C19: streaming.new, streaming.task and streaming.stop are sent only
\* directly after a token exchange that returned a token, so a token
\* exchange that fails or returns no token is followed by no second call;
\* the operation then returns failure: start() starts nothing,
\* requestLine() logs nothing and stop_avatar_session returns False.
C19_TokenBeforeSecondCall ==
    [][ /\ \A i \in 1..Len(calls') :
              calls'[i].ep \in SecondCalls
                 => /\ i > 1
                    /\ calls'[i - 1].ep = "streaming.create_token"
                    /\ calls'[i - 1].out = "ok"
        /\ last'.op = "start" /\ calls'[1].out # "ok"
              => /\ ~last'.ok
                 /\ Len(calls') = 1
                 /\ UNCHANGED << simulation_started, session_id, session_data >>
        /\ last'.op = "requestLine" /\ calls'[1].out # "ok"
              => /\ ~last'.ok
                 /\ conversation_history' = conversation_history
        /\ \A tokO \in TokenOutcomes \ {"ok"}, stopO \in Outcomes :
              LET r == stop_avatar_session(api_key, session_id, tokO, stopO)
              IN  ~r.ret /\ Len(r.calls) = 1 ]_vars

C19_Witness ==
    /\ last = Event("requestLine", PRE_BRIEFING, FALSE)
    /\ Len(calls) = 1
    /\ calls[1] = Call("streaming.create_token", None, "", "", "no_token")
    /\ Len(conversation_history) = 1

\* The last request of cs is a speak request for text that succeeded.
SpokenOk(cs, text) ==
    /\ Len(cs) >= 2
    /\ cs[Len(cs)] = Call("streaming.task", cs[Len(cs)].sid, "", text, "ok")

\* cs ends with an attempt to speak text: the token exchange and, if it
\* returned a token, the speak request.
Attempted(cs, text) ==
    /\ Len(cs) >= 1
    /\ \/ /\ cs[Len(cs)].ep = "streaming.create_token"
          /\ cs[Len(cs)].out # "ok"
       \/ /\ Len(cs) >= 2
          /\ cs[Len(cs) - 1] = Call("streaming.create_token", None, "", "", "ok")
          /\ cs[Len(cs)].ep = "streaming.task"
          /\ cs[Len(cs)].text = text

\* The step leaves the started simulation's pending line to the handler:
\* it is neither a reset() nor an advance() that changes the phase.
KeepsPendingLine ==
    /\ pending_script # << >>
    /\ simulation_started
    /\ last'.op # "reset"
    /\ ~PhaseChangingAdvance

\* C20 as stated: a pending line leaves the slot only in a step with a
\* successful speak request for it; while it is pending and the simulation
\* is started every user action attempts to speak it, and a failed attempt
\* leaves it pending.
C20_RemovedOnlyWhenSpoken ==
    [][ /\ pending_script # << >> /\ pending_script' # pending_script
              => \E i \in 1..Len(calls') :
                    calls'[i] = Call("streaming.task", calls'[i].sid, "",
                                     pending_script[1].text, "ok")
        /\ pending_script # << >> /\ simulation_started /\ simulation_started'
              => /\ Attempted(calls', pending_script[1].text)
                 /\ ~SpokenOk(calls', pending_script[1].text)
                       => pending_script' = pending_script ]_vars

\* C20 as amended: a pending line leaves the slot only when a speak request
\* for it succeeds or when a later start() or phase-changing advance()
\* puts the line it queues in its place; while it is pending and the
\* simulation is started, every user action other than reset() and a
\* phase-changing advance() attempts to speak it, and a failed attempt
\* leaves it pending; the line start() or advance() queues is attempted in
\* the same action and stays pending when that attempt fails.
C20_RemovedWhenSpokenOrReplaced ==
    [][ /\ pending_script # << >> /\ pending_script' # pending_script
              => \/ /\ SpokenOk(calls', pending_script[1].text)
                    /\ pending_script' = << >>
                 \/ /\ PhaseChangingAdvance \/ (last'.op = "start" /\ last'.ok)
                    /\ pending_script' \in
                          {<< >>, << get_phase_scripts(simulation_phase')[1] >>}
        /\ KeepsPendingLine
              => /\ Attempted(calls', pending_script[1].text)
                 /\ ~SpokenOk(calls', pending_script[1].text)
                       => pending_script' = pending_script
        /\ PhaseChangingAdvance \/ (last'.op = "start" /\ last'.ok)
              => LET queued == get_phase_scripts(simulation_phase')[1] IN
                 /\ Attempted(calls', queued.text)
                 /\ pending_script' = IF SpokenOk(calls', queued.text)
                                      THEN << >> ELSE << queued >> ]_vars

C20_Witness ==
    /\ last = Event("rerun", MAIN_SIMULATION, TRUE)
    /\ simulation_started
    /\ pending_script = << get_phase_scripts(MAIN_SIMULATION)[1] >>
    /\ Len(calls) = 2
    /\ calls[2].ep = "streaming.task"
    /\ calls[2].text = pending_script[1].text
    /\ calls[2].out = "bad_status"

\* cs holds a speak request for text that succeeded.
SpokenIn(cs, text) ==
    \E i \in 1..Len(cs) :
       cs[i] = Call("streaming.task", cs[i].sid, "", text, "ok")

\* C21, step by step: an avatar entry a step appends to the log is spoken in
\* that step or is the pending line after it, and a logged avatar line that
\* is pending stops being the pending line only in a step that speaks it;
\* so no state shows an avatar line neither spoken nor queued to be spoken.
C21_LoggedAvatarSpokenOrPending ==
    [][ /\ ( /\ Len(conversation_history') = Len(conversation_history) + 1
             /\ conversation_history'[Len(conversation_history')].role = "avatar" )
           => LET text == conversation_history'[Len(conversation_history')].content
              IN  \/ SpokenIn(calls', text)
                  \/ /\ pending_script' # << >>
                     /\ pending_script'[1].text = text
        /\ ( /\ pending_script # << >>
             /\ pending_script' # pending_script
             /\ \E i \in 1..Len(conversation_history') :
                   /\ conversation_history'[i].role = "avatar"
                   /\ conversation_history'[i].content = pending_script[1].text )
           => SpokenIn(calls', pending_script[1].text) ]_vars

\* The texts of the script lines of a phase.
LinesOf(phase) ==
    {get_phase_scripts(phase)[i].text : i \in 1..Len(get_phase_scripts(phase))}

\* C22: after every step, a line pending while the simulation is started is
\* the first script line of the current phase; hence every speak request of
\* a step is for a line of the phase the step ends in and leaves the
\* simulation started: the line of an earlier phase is not spoken after the
\* phase changed, and after a reset() nothing is spoken until a start()
\* speaks the line it queues itself.
C22_PendingIsOfCurrentPhase ==
    [][ /\ simulation_started' /\ pending_script' # << >>
              => pending_script' = << get_phase_scripts(simulation_phase')[1] >>
        /\ \A i \in 1..Len(calls') :
              calls'[i].ep = "streaming.task"
                 => /\ simulation_started'
                    /\ calls'[i].text \in LinesOf(simulation_phase')
        /\ ~simulation_started /\ pending_script' # << >>
              => \/ pending_script' = pending_script
                 \/ /\ last'.op = "start" /\ last'.ok
                    /\ pending_script' = << get_phase_scripts(PRE_BRIEFING)[1] >> ]_vars

C22_Witness ==
    /\ last = Event("advance", MAIN_SIMULATION, TRUE)
    /\ simulation_started
    /\ simulation_phase = DEBRIEFING
    /\ pending_script = << get_phase_scripts(DEBRIEFING)[1] >>
    /\ calls[Len(calls)].ep = "streaming.task"
    /\ calls[Len(calls)].text = "Welcome back! I'm Noa again."
    /\ calls[Len(calls)].out = "exception"

\* C23: every speak request is sent for a session: no streaming.task request
\* carries the unset session reference, and in every state where the
\* simulation is started and a speak can be triggered (a line is pending or
\* the phase shows script buttons) the session reference is set.
C23_SpeakOnlyWithSession ==
    /\ \A i \in 1..Len(calls) :
          calls[i].ep = "streaming.task" => calls[i].sid # None
    /\ ( /\ simulation_started
         /\ \/ pending_script # << >>
            \/ simulation_phase \in {PRE_BRIEFING, DEBRIEFING} )
       => session_id # None

====
